---- MODULE Spec2Model ----
(***************************************************************************)
(* Trip Record Service (src/main.py, src/schemas.py): the FastAPI handlers *)
(* create_trip, list_trips, get_trip, seed_trips, test_database and        *)
(* read_root over one "trip" collection of a document store.               *)
(*                                                                         *)
(* Conventions of the model                                                *)
(*  - text is a TLA+ string; the seed data's umlauts and dashes are        *)
(*    written in ASCII (Aegypten, Bruessel), which keeps titles distinct;  *)
(*  - JSON null / Python None is the string NULL;                          *)
(*  - an absent JSON key is an absent record field;                        *)
(*  - a trip id in text form is a sequence of one-character strings;       *)
(*  - a URL text is held split at "://" and at the first "/" after it; a   *)
(*    text with no "://" has empty scheme and host;                        *)
(*  - coordinates are kept as decimal text.                                *)
(***************************************************************************)
EXTENDS Integers, Sequences, FiniteSets, TLC

VARIABLES db, store, resp, created, workers, returned

vars == <<db, store, resp, created, workers, returned>>

(***************************************************************************)
(* Bounds of the model                                                     *)
(***************************************************************************)
\* successful create requests in one behaviour of Spec
MaxCreates == 2
\* successful create requests in one behaviour of SpecFaulty
MaxFaultyCreates == 1
\* seed entries still missing when the concurrent seed requests start
MaxConcMissing == 3

NULL == "null"

FieldOr(r, k, dflt) == IF k \in DOMAIN r THEN r[k] ELSE dflt

Present(r, k) == k \in DOMAIN r /\ r[k] # NULL

(***************************************************************************)
(* bson.ObjectId: 12 bytes, written as 24 hexadecimal digits               *)
(***************************************************************************)
OidByteLen == 12

HexDigits == <<"0", "1", "2", "3", "4", "5", "6", "7",
               "8", "9", "a", "b", "c", "d", "e", "f">>

UpperHexDigits == <<"0", "1", "2", "3", "4", "5", "6", "7",
                    "8", "9", "A", "B", "C", "D", "E", "F">>

IsHexChar(c) == \E i \in 1..16 : c = HexDigits[i] \/ c = UpperHexDigits[i]

HexVal(c) == (CHOOSE i \in 1..16 : c = HexDigits[i] \/ c = UpperHexDigits[i]) - 1

\* ObjectId(text) raises InvalidId unless text is 24 hexadecimal digits.
ObjectIdValid(s) ==
    /\ Len(s) = 2 * OidByteLen
    /\ \A i \in 1..Len(s) : IsHexChar(s[i])

\* ObjectId(text): the 12 bytes the text spells.
ObjectId(s) ==
    [i \in 1..OidByteLen |-> 16 * HexVal(s[2 * i - 1]) + HexVal(s[2 * i])]

\* str(ObjectId): 24 lower-case hexadecimal digits.
OidStr(o) ==
    [i \in 1..(2 * OidByteLen) |->
        IF i % 2 = 1 THEN HexDigits[(o[(i + 1) \div 2] \div 16) + 1]
                     ELSE HexDigits[(o[i \div 2] % 16) + 1]]

\* The id the store assigns to its n-th insert (n counted from 0): ids are
\* unique per insert; the model numbers them in their last two bytes.
NewObjectId(n) ==
    [i \in 1..OidByteLen |->
        IF i = OidByteLen THEN n % 256
        ELSE IF i = OidByteLen - 1 THEN (n \div 256) % 256
        ELSE 0]

(***************************************************************************)
(* pydantic HttpUrl (schemas.py: video_urls: List[HttpUrl])                *)
(***************************************************************************)
Url(scheme, host, path) == [scheme |-> scheme, host |-> host, path |-> path]

\* Lower-casing, on the texts the model's inputs use.
Lower(s) ==
    CASE s = "HTTPS" -> "https"
      [] s = "Example.COM" -> "example.com"
      [] OTHER -> s

HttpUrlValid(u) == Lower(u.scheme) \in {"http", "https"} /\ u.host # ""

\* The validated URL: scheme and host in lower case, an empty path is "/".
HttpUrl(u) ==
    Url(Lower(u.scheme), Lower(u.host), IF u.path = "" THEN "/" ELSE u.path)

(***************************************************************************)
(* schemas.py: TripLocation and Trip; main.py: TripCreate                  *)
(***************************************************************************)
TripLocationValid(l) == Present(l, "country_code") /\ Present(l, "country_name")

TripLocation(l) ==
    [country_code |-> l.country_code,
     country_name |-> l.country_name,
     city |-> FieldOr(l, "city", NULL),
     lat |-> FieldOr(l, "lat", NULL),
     lon |-> FieldOr(l, "lon", NULL)]

\* TripCreate: the request body model; video_urls are plain strings here.
TripCreateValid(p) ==
    /\ Present(p, "title")
    /\ Present(p, "date_text")
    /\ \A i \in 1..Len(FieldOr(p, "locations", <<>>)) :
           TripLocationValid(p.locations[i])

\* TripCreate(...).model_dump(): every field, the omitted ones at their default.
TripCreate(p) ==
    [title |-> p.title,
     date_text |-> p.date_text,
     people |-> FieldOr(p, "people", <<>>),
     description |-> FieldOr(p, "description", NULL),
     locations |-> [i \in 1..Len(FieldOr(p, "locations", <<>>)) |->
                       TripLocation(p.locations[i])],
     photo_placeholders |-> FieldOr(p, "photo_placeholders", <<>>),
     video_urls |-> FieldOr(p, "video_urls", <<>>)]

\* Variant: video_urls: List[str], the URLs are not checked.
TripValidUrlsUnchecked(p) == TripCreateValid(p)

TripValid(p) ==
    /\ TripCreateValid(p)
    /\ \A i \in 1..Len(FieldOr(p, "video_urls", <<>>)) :
           HttpUrlValid(p.video_urls[i])

\* Trip(...): the validated record, each video URL in validated form.
Trip(p) ==
    [TripCreate(p) EXCEPT
        !.video_urls = [i \in 1..Len(@) |-> HttpUrl(@[i])]]

(***************************************************************************)
(* main.py seed_trips: the hard-coded seed list                            *)
(***************************************************************************)
Loc(code, name, city, lat, lon) ==
    [country_code |-> code, country_name |-> name, city |-> city,
     lat |-> lat, lon |-> lon]

seed_data ==
    << Trip([title |-> "Den Haag, Niederlande",
             date_text |-> "Mai 2019 (genauer Zeitraum nicht mehr erinnerlich)",
             people |-> <<"gesamte Schulklasse">>,
             description |-> "Klassenausflug ans Meer, Strandbesuch und kleine Stadttour.",
             locations |-> <<Loc("NLD", "Niederlande", "Den Haag", "52.0705", "4.3007")>>,
             photo_placeholders |-> <<"Strandbild", "Gruppenfoto Klasse", "Haeuser in Den Haag">>,
             video_urls |-> <<>>]),
       Trip([title |-> "Dublin, Irland",
             date_text |-> "Juli 2019",
             people |-> <<"ich", "meine Mutter", "meine Schwester Shelly">>,
             description |-> "Besuch bei meiner Schwester, die dort als Au-Pair gearbeitet hat; Natur und Stadt.",
             locations |-> <<Loc("IRL", "Irland", "Dublin", "53.3498", "-6.2603")>>,
             photo_placeholders |-> <<"Familienfoto", "Natur Dublin">>,
             video_urls |-> <<>>]),
       Trip([title |-> "Hurghada, Aegypten",
             date_text |-> "Oktober 2019 (genaues Datum nicht mehr verfuegbar)",
             people |-> <<"ich", "meine Mutter">>,
             description |-> "Abenteuerurlaub mit Quad-Tour, Kameltour und Wuestenausflug.",
             locations |-> <<Loc("EGY", "Aegypten", "Hurghada", "27.2579", "33.8116")>>,
             photo_placeholders |-> <<"Quad", "Wueste", "Kamele">>,
             video_urls |-> <<>>]),
       Trip([title |-> "Warschau, Polen",
             date_text |-> "17.-21. April 2023",
             people |-> <<"Chris Lammel", "Kiran Odell", "Leon Morgenschweiss", "Anton Pfaff", "ich">>,
             description |-> "Staedtetrip, Nachtleben, Shooting-Range (Pistole), Fotos auf Hochhaeusern.",
             locations |-> <<Loc("POL", "Polen", "Warschau", "52.2297", "21.0122")>>,
             photo_placeholders |-> <<"Hochhaus">>,
             video_urls |-> <<Url("https", "www.youtube.com", "/watch?v=dQw4w9WgXcQ")>>]),
       Trip([title |-> "Budapest, Ungarn",
             date_text |-> "23.-29. Juni 2024",
             people |-> <<"Peter Rentler", "Jeremy Penzien", "Luca Malik", "ich">>,
             description |-> "Urlaub mit Online-Freundesgruppe, Stadt, Bootstour, Luxusrestaurant, Club.",
             locations |-> <<Loc("HUN", "Ungarn", "Budapest", "47.4979", "19.0402")>>,
             photo_placeholders |-> <<"Gruppenfoto", "Bootstour", "Restaurant", "Club">>,
             video_urls |-> <<>>]),
       Trip([title |-> "Frankreich - Monaco - Italien (Mehrlaender-Reise)",
             date_text |-> "10.-22. August 2024",
             people |-> <<"Anton Pfaff", "Chris Lammel", "Kiran Odell", "ich">>,
             description |-> "Zug/Interrail-Reise, Strand, Meer, Sightseeing, Staedte und Natur.",
             locations |-> <<Loc("FRA", "Frankreich", "Aix-en-Provence", "43.5297", "5.4474"),
                             Loc("FRA", "Frankreich", "Nizza", "43.7102", "7.2620"),
                             Loc("MCO", "Monaco", "Monaco", "43.7384", "7.4246"),
                             Loc("ITA", "Italien", "Bonassola", "44.1799", "9.5835"),
                             Loc("ITA", "Italien", "Mailand", "45.4642", "9.1900")>>,
             photo_placeholders |-> <<"Aix-en-Provence", "Nizza", "Monaco", "Bonassola", "Mailand", "Gruppenfoto">>,
             video_urls |-> <<>>]),
       Trip([title |-> "Galdar, Gran Canaria (Spanien)",
             date_text |-> "14.-17. November 2024",
             people |-> <<"Kiran O'Dell", "ich">>,
             description |-> "Inseltrip mit Rollerfahrten, Natur, mein erstes eigenes Urlaubsvideo.",
             locations |-> <<Loc("ESP", "Spanien", "Galdar (Gran Canaria)", "28.1445", "-15.6504")>>,
             photo_placeholders |-> <<"Natur Gran Canaria", "Stadt Galdar">>,
             video_urls |-> <<Url("https", "youtu.be", "/SGeLnxvfIsI")>>]),
       Trip([title |-> "Ukkel, Belgien",
             date_text |-> "Dezember 2024 (genauer Zeitraum nicht mehr verfuegbar)",
             people |-> <<"Luca Malic", "Peter Raendler", "Jeremy Penzien", "ich">>,
             description |-> "Airbnb-Aufenthalt, Stadt, Ausfluege, Video.",
             locations |-> <<Loc("BEL", "Belgien", "Ukkel", "50.8020", "4.3572")>>,
             photo_placeholders |-> <<"Airbnb", "Stadt Ukkel">>,
             video_urls |-> <<Url("https", "youtu.be", "/kO34SsLgHoY")>>]),
       Trip([title |-> "Cubelles & Barcelona, Spanien",
             date_text |-> "1.-6. September 2025",
             people |-> <<"Leon Morgenschweiss", "Chris Lammel", "Kiran Odell", "Anton Pfaff", "ich",
                          "Louis Schaefer", "Fabian Stork", "Patrick Mauler">>,
             description |-> "Unterkunft in Cubelles, taegliche Mietwagenfahrten nach Barcelona, Strand, Stadt, Nachtleben.",
             locations |-> <<Loc("ESP", "Spanien", "Cubelles", "41.1950", "1.6364"),
                             Loc("ESP", "Spanien", "Barcelona", "41.3874", "2.1686")>>,
             photo_placeholders |-> <<"Gruppenfoto", "Strand Cubelles", "Barcelona Stadt", "Nachtleben">>,
             video_urls |-> <<Url("https", "youtu.be", "/1ZJsD6BcUNo")>>]),
       Trip([title |-> "Montenegro (Bucht von Kotor & Rundreise)",
             date_text |-> "Datum nicht exakt erinnerlich",
             people |-> <<"Kiran O'Dell", "ich">>,
             description |-> "Mietwagen-Rundreise durch ganz Montenegro, Landschaften, Strassen, Kuestenorte, Airbnb in Dobrota.",
             locations |-> <<Loc("MNE", "Montenegro", "Kotor (Bucht)", "42.4247", "18.7712"),
                             Loc("MNE", "Montenegro", "Dobrota", "42.4576", "18.7684")>>,
             photo_placeholders |-> <<"Bucht von Kotor", "Landschaft Montenegro", "Airbnb Dobrota">>,
             video_urls |-> <<Url("https", "youtu.be", "/i6UApGouaDE")>>]),
       Trip([title |-> "Bruessel, Belgien",
             date_text |-> "Datum nicht dokumentiert",
             people |-> <<>>,
             description |-> "Staedtetrip nach Bruessel.",
             locations |-> <<Loc("BEL", "Belgien", "Bruessel", "50.8503", "4.3517")>>,
             photo_placeholders |-> <<"Bruessel Stadt">>,
             video_urls |-> <<Url("https", "youtu.be", "/kO34SsLgHoY")>>]) >>

SeedTitles == {seed_data[i].title : i \in 1..Len(seed_data)}

(***************************************************************************)
(* The store contract the handlers use (database.py: db, create_document,  *)
(* get_documents; pymongo find_one).  The "trip" collection is the         *)
(* sequence store, in insertion order; each document carries its _id.      *)
(***************************************************************************)
\* create_document("trip", data): inserts the record's fields under a fresh id.
create_document(st, data) == Append(st, ("_id" :> NewObjectId(Len(st))) @@ data)

\* The id create_document returns: str(result.inserted_id).
inserted_id(st) == OidStr(NewObjectId(Len(st)))

\* get_documents("trip"): every document of the collection.
get_documents(st) == st

\* create_document raises when the connection is absent or the store
\* refuses the insert (insertOk = FALSE); nothing is inserted then.
create_document_raises(dbv, insertOk) == ~dbv \/ ~insertOk

\* get_documents raises when the connection is absent.
get_documents_raises(dbv) == ~dbv

\* db["trip"].find_one({"_id": oid}): the positions of the matching documents.
find_one(st, oid) == {i \in 1..Len(st) : st[i]._id = oid}

RECURSIVE InsertAll(_, _)
InsertAll(st, docs) ==
    IF docs = <<>> THEN st
    ELSE InsertAll(create_document(st, Head(docs)), Tail(docs))

(***************************************************************************)
(* Responses                                                               *)
(***************************************************************************)
Response(status, body, st) == [status |-> status, body |-> body, store |-> st]

HTTPException(status, detail, st) == Response(status, [detail |-> detail], st)

\* An exception no handler catches: the framework answers 500.
ServerError(st) == Response(500, [detail |-> "Internal Server Error"], st)

\* The request body fails the handler's parameter model: the framework answers 422.
RequestValidationError(st) == Response(422, [detail |-> "Unprocessable Entity"], st)

\* Variant: d["id"] = str(d["_id"]), the internal key is left in place.
PublicDocKeepsInternalId(d) == ("id" :> OidStr(d._id)) @@ d

\* d["id"] = str(d.pop("_id"))
PublicDoc(d) ==
    [k \in (DOMAIN d \ {"_id"}) \cup {"id"} |->
        IF k = "id" THEN OidStr(d._id) ELSE d[k]]

(***************************************************************************)
(* Handlers.  dbv: the store connection is initialized (db is not None).   *)
(***************************************************************************)
read_root == [status |-> 200, body |-> [message |-> "Personal Site Backend Ready"]]

\* insertOk: the store accepts the insert (FALSE: the store raises).
create_trip(dbv, st, p, insertOk) ==
    IF ~TripCreateValid(p) THEN RequestValidationError(st)
    ELSE IF ~TripValid(TripCreate(p)) THEN ServerError(st)
    ELSE IF create_document_raises(dbv, insertOk) THEN ServerError(st)
    ELSE Response(200, [id |-> inserted_id(st)],
                  create_document(st, Trip(TripCreate(p))))

list_trips(dbv, st) ==
    IF get_documents_raises(dbv) THEN ServerError(st)
    ELSE LET docs == get_documents(st)
         IN  Response(200, [items |-> [i \in 1..Len(docs) |-> PublicDoc(docs[i])]],
                      st)

\* The try block of get_trip: what it returns, or the exception it raises.
get_trip_try(st, trip_id) ==
    IF ~ObjectIdValid(trip_id) THEN [raised |-> "InvalidId"]
    ELSE LET found == find_one(st, ObjectId(trip_id))
         IN  IF found = {} THEN [raised |-> "HTTPException(404)"]
             ELSE [raised |-> "",
                   doc |-> PublicDoc(st[CHOOSE i \in found : TRUE])]

\* Variant: whatever the try block raises is answered as not found.
get_trip_answers_404(dbv, st, trip_id) ==
    IF ~dbv THEN HTTPException(500, "Database not available", st)
    ELSE LET r == get_trip_try(st, trip_id)
         IN  IF r.raised # "" THEN HTTPException(404, "Trip not found", st)
             ELSE Response(200, r.doc, st)

\* Variant: the connection is looked at only after the id is parsed.
get_trip_parses_first(dbv, st, trip_id) ==
    IF ~ObjectIdValid(trip_id) THEN HTTPException(400, "Invalid trip id", st)
    ELSE IF ~dbv THEN HTTPException(500, "Database not available", st)
    ELSE LET r == get_trip_try(st, trip_id)
         IN  IF r.raised # "" THEN HTTPException(400, "Invalid trip id", st)
             ELSE Response(200, r.doc, st)

\* "except Exception" catches whatever the try block raises, the
\* HTTPException(404) included.
get_trip(dbv, st, trip_id) ==
    IF ~dbv THEN HTTPException(500, "Database not available", st)
    ELSE LET r == get_trip_try(st, trip_id)
         IN  IF r.raised # "" THEN HTTPException(400, "Invalid trip id", st)
             ELSE Response(200, r.doc, st)

\* Variant: the titles are read under a key the documents do not have.
existing_titles_wrong_key(st) == {NULL}

\* existing_titles = set(d.get("title") for d in get_documents("trip"))
existing_titles(st) == {get_documents(st)[i].title : i \in 1..Len(st)}

\* Variant: the loop inserts every seed entry.
SeedTodoUnfiltered(existing) == seed_data

\* The seed entries the loop inserts, in order: those whose title is not in existing.
SeedTodo(existing) == SelectSeq(seed_data, LAMBDA t : t.title \notin existing)

\* Variant: "inserted += 1" runs for every seed entry, skipped or not.
seed_trips_counts_every_entry(dbv, st, k) ==
    IF ~dbv THEN HTTPException(500, "Database not available", st)
    ELSE LET todo == SeedTodo(existing_titles(st))
         IN  IF k < Len(todo)
             THEN ServerError(InsertAll(st, SubSeq(todo, 1, k)))
             ELSE Response(200, [inserted |-> Len(seed_data)], InsertAll(st, todo))

\* The whole handler run alone; the store raises at insert number k + 1
\* (k at or above the number of inserts: no insert fails).
seed_trips(dbv, st, k) ==
    IF ~dbv THEN HTTPException(500, "Database not available", st)
    ELSE LET todo == SeedTodo(existing_titles(st))
         IN  IF k < Len(todo)
             THEN ServerError(InsertAll(st, SubSeq(todo, 1, k)))
             ELSE Response(200, [inserted |-> Len(todo)], InsertAll(st, todo))

\* collections[:10]
MaxCollectionsShown == 10

Take(s, n) == SubSeq(s, 1, IF Len(s) < n THEN Len(s) ELSE n)

\* The store creates a collection with its first document.
list_collection_names(st) == IF st = <<>> THEN <<>> ELSE <<"trip">>

test_database(dbv, st, urlSet, nameSet, listOk) ==
    LET base == [backend |-> "Running",
                 database |-> "Not Available",
                 database_url |-> NULL,
                 database_name |-> NULL,
                 connection_status |-> "Not Connected",
                 collections |-> <<>>]
        conn == [base EXCEPT
                   !.database_url = IF urlSet THEN "Set" ELSE "Not Set",
                   !.database_name = IF nameSet THEN "Set" ELSE "Not Set",
                   !.connection_status = "Connected"]
    IN  [status |-> 200,
         body |-> IF ~dbv
                  THEN [base EXCEPT !.database = "Available but not initialized"]
                  ELSE IF listOk
                  THEN [conn EXCEPT
                          !.collections = Take(list_collection_names(st),
                                               MaxCollectionsShown),
                          !.database = "Connected & Working"]
                  ELSE [conn EXCEPT !.database = "Connected but Error"]]

(***************************************************************************)
(* Request inputs                                                          *)
(***************************************************************************)
\* Valid; omits the optional fields, and its URL is not in validated form.
PayloadLisbon ==
    [title |-> "Lissabon, Portugal",
     date_text |-> "Mai 2025",
     locations |-> <<[country_code |-> "PRT", country_name |-> "Portugal"]>>,
     video_urls |-> <<Url("HTTPS", "Example.COM", "")>>]

\* Valid; every field given in validated form; its title is a seed title.
PayloadDublin ==
    [title |-> "Dublin, Irland",
     date_text |-> "Juli 2019",
     people |-> <<"ich">>,
     description |-> "Noch einmal Dublin",
     locations |-> <<Loc("IRL", "Irland", "Dublin", "53.3498", "-6.2603")>>,
     photo_placeholders |-> <<"Hafen">>,
     video_urls |-> <<Url("https", "youtu.be", "/SGeLnxvfIsI")>>]

\* Valid: both required strings are present, and empty.
PayloadEmptyStrings == [title |-> "", date_text |-> ""]

PayloadNoTitle == [date_text |-> "Mai 2025"]

PayloadBadUrl ==
    [title |-> "Porto, Portugal",
     date_text |-> "Juni 2025",
     video_urls |-> <<Url("", "", "not a url")>>]

PayloadBadLocation ==
    [title |-> "Porto, Portugal",
     date_text |-> "Juni 2025",
     locations |-> <<[country_name |-> "Portugal"]>>]

Payloads ==
    {PayloadLisbon, PayloadDublin, PayloadEmptyStrings,
     PayloadNoTitle, PayloadBadUrl, PayloadBadLocation}

Chars(n, c) == [i \in 1..n |-> c]

\* "not-an-id", 23 digits, 25 digits, 24 characters ending in "g".
MalformedIds ==
    { <<"n", "o", "t", "-", "a", "n", "-", "i", "d">>,
      Chars(2 * OidByteLen - 1, "0"),
      Chars(2 * OidByteLen + 1, "0"),
      Chars(2 * OidByteLen - 1, "0") \o <<"g">> }

\* Well-formed ids: the first id the store issues, the eleventh one written
\* in upper case, one the store never issues, and the ids create returned.
WellFormedIds ==
    { OidStr(NewObjectId(0)),
      Chars(2 * OidByteLen - 1, "0") \o <<"A">>,
      Chars(2 * OidByteLen, "f") }
    \cup {created[i].id : i \in 1..Len(created)}

TripIds == MalformedIds \cup WellFormedIds

Workers == {"w1", "w2"}

IdleWorker == [pc |-> "idle", existing_titles |-> {}, i |-> 0, inserted |-> 0]

NoResponse == [op |-> "none", req |-> <<>>, status |-> 0, body |-> <<>>]

Answer(op, req, r) == [op |-> op, req |-> req, status |-> r.status, body |-> r.body]

(***************************************************************************)
(* Requests served one at a time: each action is one whole handler.        *)
(***************************************************************************)
Init ==
    /\ db \in BOOLEAN
    /\ store = <<>>
    /\ resp = NoResponse
    /\ created = <<>>
    /\ workers = [w \in Workers |-> IdleWorker]
    /\ returned = [absent |-> Len(seed_data), sum |-> 0, failed |-> FALSE]

ReadRoot ==
    /\ resp' = Answer("root", <<>>, read_root)
    /\ UNCHANGED <<db, store, created, workers, returned>>

TestDatabase ==
    \E urlSet, nameSet, listOk \in BOOLEAN :
        /\ resp' = Answer("test", <<>>,
                          test_database(db, store, urlSet, nameSet, listOk))
        /\ UNCHANGED <<db, store, created, workers, returned>>

\* The outcome of a create request, recorded.
Created(p, r) ==
    /\ store' = r.store
    /\ resp' = Answer("create", p, r)
    /\ created' = IF r.status = 200
                  THEN Append(created, [id |-> r.body.id, payload |-> p])
                  ELSE created
    /\ UNCHANGED <<db, workers, returned>>

CreateTrip ==
    /\ Len(created) < MaxCreates
    /\ \E p \in Payloads : Created(p, create_trip(db, store, p, TRUE))

ListTrips ==
    LET r == list_trips(db, store)
    IN  /\ store' = r.store
        /\ resp' = Answer("list", <<>>, r)
        /\ UNCHANGED <<db, created, workers, returned>>

GetTrip ==
    \E trip_id \in TripIds :
        LET r == get_trip(db, store, trip_id)
        IN  /\ store' = r.store
            /\ resp' = Answer("get", trip_id, r)
            /\ UNCHANGED <<db, created, workers, returned>>

\* The outcome of a seed request, recorded.
Seeded(r) ==
    /\ store' = r.store
    /\ resp' = Answer("seed", <<>>, r)
    /\ UNCHANGED <<db, created, workers, returned>>

SeedTrips == Seeded(seed_trips(db, store, Len(seed_data)))

Next ==
    \/ ReadRoot
    \/ TestDatabase
    \/ CreateTrip
    \/ ListTrips
    \/ GetTrip
    \/ SeedTrips

Spec == Init /\ [][Next]_vars

(***************************************************************************)
(* Requests served one at a time over a store whose inserts may raise.     *)
(***************************************************************************)
CreateTripStoreMayFail ==
    /\ Len(created) < MaxFaultyCreates
    /\ \E p \in Payloads, insertOk \in BOOLEAN :
           Created(p, create_trip(db, store, p, insertOk))

SeedTripsStoreMayFail ==
    \E k \in 0..Len(seed_data) : Seeded(seed_trips(db, store, k))

NextFaulty ==
    \/ CreateTripStoreMayFail
    \/ SeedTripsStoreMayFail
    \/ ListTrips

SpecFaulty == Init /\ [][NextFaulty]_vars

(***************************************************************************)
(* Seed requests served concurrently (the framework runs each plain "def"  *)
(* handler on a thread of its pool): a request reads the existing titles   *)
(* once, then inserts entry by entry; each store call is atomic.           *)
(***************************************************************************)
RECURSIVE NextMissing(_, _)
\* The first seed entry at or after position i whose title is not in
\* existing; Len(seed_data) + 1 when the loop is over.
NextMissing(existing, i) ==
    IF i > Len(seed_data) THEN i
    ELSE IF seed_data[i].title \notin existing THEN i
    ELSE NextMissing(existing, i + 1)

\* A store that already holds the first n seed entries (an earlier seed
\* request that ended early leaves it so).
InitConc ==
    /\ db \in BOOLEAN
    /\ \E n \in (Len(seed_data) - MaxConcMissing)..Len(seed_data) :
        /\ store = IF db THEN InsertAll(<<>>, SubSeq(seed_data, 1, n)) ELSE <<>>
        /\ returned = [absent |-> IF db THEN Len(seed_data) - n ELSE Len(seed_data),
                       sum |-> 0, failed |-> FALSE]
    /\ resp = NoResponse
    /\ created = <<>>
    /\ workers = [w \in Workers |-> IdleWorker]

\* The request ends: the worker is idle again and the response is recorded.
SeedReturns(w, r, count) ==
    /\ workers' = [workers EXCEPT ![w] = IdleWorker]
    /\ resp' = Answer("seed", <<>>, r)
    /\ returned' = IF r.status = 200
                   THEN [returned EXCEPT !.sum = @ + count]
                   ELSE [returned EXCEPT !.failed = TRUE]

\* Lines 104-107 and the loop up to its first insert.
SeedBegin(w) ==
    /\ workers[w].pc = "idle"
    /\ IF ~db
       THEN SeedReturns(w, HTTPException(500, "Database not available", store), 0)
       ELSE LET existing == existing_titles(store)
                first == NextMissing(existing, 1)
            IN  IF first > Len(seed_data)
                THEN SeedReturns(w, Response(200, [inserted |-> 0], store), 0)
                ELSE /\ workers' = [workers EXCEPT ![w] =
                            [pc |-> "loop", existing_titles |-> existing,
                             i |-> first, inserted |-> 0]]
                     /\ UNCHANGED <<resp, returned>>
    /\ UNCHANGED <<db, store, created>>

\* Lines 224-229: one create_document, and the loop up to its next insert.
SeedInsert(w) ==
    /\ workers[w].pc = "loop"
    /\ LET me == workers[w]
           next == NextMissing(me.existing_titles, me.i + 1)
       IN  /\ store' = create_document(store, seed_data[me.i])
           /\ IF next > Len(seed_data)
              THEN SeedReturns(w, Response(200, [inserted |-> me.inserted + 1], store'),
                               me.inserted + 1)
              ELSE /\ workers' = [workers EXCEPT ![w] =
                          [me EXCEPT !.i = next, !.inserted = @ + 1]]
                   /\ UNCHANGED <<resp, returned>>
    /\ UNCHANGED <<db, created>>

\* create_document raises: the exception leaves the handler, nothing is undone.
SeedInsertFails(w) ==
    /\ workers[w].pc = "loop"
    /\ SeedReturns(w, ServerError(store), 0)
    /\ UNCHANGED <<db, store, created>>

NextConc ==
    \E w \in Workers :
        \/ SeedBegin(w)
        \/ SeedInsert(w)
        \/ SeedInsertFails(w)

SpecConc == InitConc /\ [][NextConc]_vars

(***************************************************************************)
(* Properties                                                              *)
(***************************************************************************)
\* The number of stored trips titled t.
TitleCount(st, t) == Cardinality({i \in 1..Len(st) : st[i].title = t})

\* The positions of the seed entries no stored trip of st is titled after.
MissingSeeds(st) ==
    {i \in 1..Len(seed_data) :
        \A j \in 1..Len(st) : st[j].title # seed_data[i].title}

\* A stored document without its _id.
Fields(d) == [k \in DOMAIN d \ {"_id"} |-> d[k]]

\* st is the beginning of st2.
IsPrefix(st, st2) == Len(st) <= Len(st2) /\ SubSeq(st2, 1, Len(st)) = st

DataOps == {"create", "list", "get", "seed"}

TripFields ==
    {"title", "date_text", "people", "description", "locations",
     "photo_placeholders", "video_urls"}

\* C1: with the store available, get on a well-formed id that matches no
\* stored trip answers 404 (not found), not 400.
C1_UnknownWellFormedIdIsNotFound ==
    (db /\ resp.op = "get" /\ ObjectIdValid(resp.req)
        /\ find_one(store, ObjectId(resp.req)) = {})
    => resp.status = 404

\* C2: with the store available, get on an id text that does not parse as
\* an ObjectId answers 400 "Invalid trip id", never 404, whatever the store
\* holds.
C2_MalformedIdIsBadRequest ==
    db =>
      /\ \A s \in MalformedIds :
            /\ get_trip(db, store, s).status = 400
            /\ get_trip(db, store, s).store = store
      /\ (resp.op = "get" /\ ~ObjectIdValid(resp.req))
            => (resp.status = 400 /\ resp.body = [detail |-> "Invalid trip id"])

C2_Witness ==
    /\ db
    /\ resp.op = "get"
    /\ resp.req = <<"n", "o", "t", "-", "a", "n", "-", "i", "d">>
    /\ resp.status = 400
    /\ Len(store) > Len(seed_data)

\* C3: a completed seed request leaves every seed title stored, nothing
\* removes one, and a seed request on a store that holds every seed title
\* answers inserted = 0 and leaves the collection as it is, so list returns
\* as many trips after it as before it.
C3_SecondSeedInsertsNothing ==
    [][/\ (resp'.op = "seed" /\ resp'.status = 200) => MissingSeeds(store') = {}
       /\ MissingSeeds(store) = {} => MissingSeeds(store') = {}
       /\ (resp'.op = "seed" /\ MissingSeeds(store) = {})
            => /\ resp'.status = 200
               /\ resp'.body.inserted = 0
               /\ store' = store
               /\ Len(list_trips(db, store').body.items)
                     = Len(list_trips(db, store).body.items)]_vars

C3_Witness ==
    /\ resp.op = "seed"
    /\ resp.status = 200
    /\ resp.body.inserted = 0
    /\ MissingSeeds(store) = {}

\* C4: a completed seed request appends exactly the seed entries whose
\* title no stored trip had when it started, one document each and in the
\* seed list's order, and answers their number; on the empty store that
\* number is 11.
C4_SeedInsertsExactlyTheMissing ==
    [][(resp'.op = "seed" /\ resp'.status = 200)
        => LET missing == MissingSeeds(store)
               added == SubSeq(store', Len(store) + 1, Len(store'))
           IN  /\ resp'.body.inserted = Cardinality(missing)
               /\ IsPrefix(store, store')
               /\ Len(added) = Cardinality(missing)
               /\ \A i \in missing :
                     \E j \in 1..Len(added) : Fields(added[j]) = seed_data[i]
               /\ \A j \in 1..Len(added) :
                     \E i \in missing : Fields(added[j]) = seed_data[i]
               /\ (store = <<>> => resp'.body.inserted = 11)]_vars

\* A trip created with a seed title is in the store and the seed request
\* after it skipped that entry.
C4_Witness ==
    /\ resp.op = "seed"
    /\ resp.status = 200
    /\ resp.body.inserted = Len(seed_data) - 1
    /\ Len(store) = Len(seed_data)
    /\ Len(created) = 1
    /\ Fields(store[1]) = Trip(PayloadDublin)

\* C5: create with a payload that violates the Trip schema answers 422.
C5_SchemaViolationIsUnprocessable ==
    (resp.op = "create" /\ ~TripValid(resp.req)) => resp.status = 422

\* C6 as stated: every stored trip has a non-empty title and date_text,
\* valid video URLs and locations with country_code and country_name.
C6_StoredTripsHaveNonEmptyTitles ==
    \A i \in 1..Len(store) :
        /\ store[i].title # ""
        /\ store[i].date_text # ""
        /\ \A j \in 1..Len(store[i].video_urls) :
              HttpUrlValid(store[i].video_urls[j])
        /\ \A j \in 1..Len(store[i].locations) :
              TripLocationValid(store[i].locations[j])

\* C6 as amended: every stored trip has a title and a date_text that are
\* strings (possibly empty), every video URL of it is a valid URL and every
\* location of it has country_code and country_name.
C6_StoredTripsAreValidTrips ==
    \A i \in 1..Len(store) :
        /\ Present(store[i], "title")
        /\ Present(store[i], "date_text")
        /\ \A j \in 1..Len(store[i].video_urls) :
              HttpUrlValid(store[i].video_urls[j])
        /\ \A j \in 1..Len(store[i].locations) :
              TripLocationValid(store[i].locations[j])

C6_Witness ==
    /\ \E i \in 1..Len(store) : store[i].title = "" /\ store[i].date_text = ""
    /\ \E i \in 1..Len(store) : store[i].video_urls # <<>>
    /\ resp.op = "create"
    /\ resp.status = 200

LocationFields == {"country_code", "country_name", "city", "lat", "lon"}

C8_NoConnectionAlwaysAnswers500 ==
    (~db /\ resp.op \in DataOps) => resp.status = 500

\* C8 as amended: with no store connection, list, get (malformed id or
\* not) and seed answer 500, create answers 422 for a body that fails the
\* request model and 500 for every other body, nothing is stored, and
\* /test answers 200 with a description of the missing connection.
C8_NoConnectionAnswers ==
    ~db =>
      /\ store = <<>>
      /\ created = <<>>
      /\ resp.op \in {"list", "get", "seed"} => resp.status = 500
      /\ resp.op \in {"get", "seed"}
            => resp.body = [detail |-> "Database not available"]
      /\ resp.op = "create"
            => resp.status = IF TripCreateValid(resp.req) THEN 500 ELSE 422
      /\ resp.op = "test"
            => /\ resp.status = 200
               /\ resp.body.database = "Available but not initialized"
               /\ resp.body.connection_status = "Not Connected"
               /\ resp.body.collections = <<>>

C8_Witness ==
    /\ ~db
    /\ resp.op = "get"
    /\ resp.req = <<"n", "o", "t", "-", "a", "n", "-", "i", "d">>
    /\ resp.status = 500

\* C9 as stated, its last part: once a seed request has completed, the
\* store holds exactly one trip per seed title.
C9_CompletedSeedLeavesOneTripPerTitle ==
    (resp.op = "seed" /\ resp.status = 200)
    => \A t \in SeedTitles : TitleCount(store, t) = 1

\* C9 as amended: a seed request, failed or completed, removes and changes
\* no stored trip, and the trips a failed one inserted are seed entries that
\* were missing; a completed one answers the number of seed entries that
\* were missing and leaves each seed title stored at least once: exactly
\* once when it was missing, as often as before otherwise.
C9_SeedKeepsPartialInsertsAndCompletes ==
    [][resp'.op = "seed"
        => LET missing == MissingSeeds(store)
               added == SubSeq(store', Len(store) + 1, Len(store'))
           IN  /\ IsPrefix(store, store')
               /\ \A j \in 1..Len(added) :
                     \E i \in missing : Fields(added[j]) = seed_data[i]
               /\ \A t \in SeedTitles :
                     TitleCount(store', t) <= IF TitleCount(store, t) = 0
                                              THEN 1 ELSE TitleCount(store, t)
               /\ resp'.status = 200
                    => /\ resp'.body.inserted = Cardinality(missing)
                       /\ \A t \in SeedTitles :
                             TitleCount(store', t) =
                                 IF TitleCount(store, t) = 0
                                 THEN 1 ELSE TitleCount(store, t)]_vars

\* A seed request failed part-way, and a later one has completed with the
\* rest: no create was involved.
C9_Witness ==
    /\ resp.op = "seed"
    /\ resp.status = 200
    /\ resp.body.inserted \in 1..(Len(seed_data) - 1)
    /\ created = <<>>
    /\ Len(store) = Len(seed_data)

\* C10: under every interleaving of seed requests the store holds at most
\* one trip per seed title, and once the requests have all completed the
\* inserted counts they answered sum to the number of seed titles that were
\* absent at the start.
C10_ConcurrentSeedsNeverDuplicate ==
    /\ \A t \in SeedTitles : TitleCount(store, t) <= 1
    /\ ((\A w \in Workers : workers[w].pc = "idle")
           /\ ~returned.failed /\ MissingSeeds(store) = {})
         => returned.sum = returned.absent
====
